---- MODULE Spec2Model ----
(***************************************************************************)
(* State-machine model of the bladeRF radar interface:                     *)
(*   RF_app/models/sdr_model.py        SdrModel (RX/TX workers, rx_queue)  *)
(*   RF_app/controllers/*.py           timer-driven DSP ticks              *)
(*   old/main_3.py                     snapshot-mode correlation radar     *)
(* Samples are integers (one real component stands for the complex IQ      *)
(* value); floating-point DSP is carried out in integer arithmetic.        *)
(***************************************************************************)
EXTENDS Integers, Sequences, FiniteSets, TLC

\* ------------------------------------------------------------------ bounds
History   == 2      \* rows of the rolling buffer (history / heatmap_height)
MaxBlocks == 2      \* non-empty blocks the driver delivers to one run
MaxStatus == 3      \* longest block the driver returns in the small runs
MaxQueue  == 2      \* queue horizon of the never-ending cw_main run
MaxThreads == 2     \* RX (and TX) threads ever started on one model

\* ------------------------------------------------------- program constants
read_size     == 1024          \* SdrModel._rx_worker
tx_size       == 1024          \* SdrModel._tx_worker
doppler_rate  == 2000          \* CW_DopplerController.__init__
dc_alpha      == 99            \* 0.99, in hundredths
rx_buf_len    == 256           \* BladeRFRadarHeatmap.__init__
radar_rate    == 520834        \* BladeRFRadarHeatmap.sample_rate
pulse_width_us == 10           \* make_pulse(..., pulse_width_us=10)
cw_main_rate  == 520834        \* cw_main.main
cw_main_fft   == 1024          \* cw_main.main

\* ---------------------------------------------------------- numpy helpers
Min(a, b) == IF a < b THEN a ELSE b
Max(a, b) == IF a < b THEN b ELSE a
Abs(a)    == IF a < 0 THEN -a ELSE a

RECURSIVE SumTo(_, _)
SumTo(x, n) == IF n = 0 THEN 0 ELSE x[n] + SumTo(x, n - 1)
Sum(x) == SumTo(x, Len(x))

\* np.zeros(n)
Zeros(n) == [i \in 1..n |-> 0]

\* x[:n]
Slice(x, n) == SubSeq(x, 1, Min(n, Len(x)))

\* variant: only whole groups of d samples are kept (x[d-1::d])
StrideFloor(x, d) == [k \in 1..(Len(x) \div d) |-> x[(k - 1) * d + 1]]

\* x[::d]
Stride(x, d) == [k \in 1..((Len(x) + d - 1) \div d) |-> x[(k - 1) * d + 1]]

\* np.mean(x), rounded down
Mean(x) == Sum(x) \div Len(x)

\* np.hanning(M): symmetric taper, zero at both ends for M > 1, [1] for M = 1
\* (triangular integer weights; exact for M <= 3, scaled by (M-1)/2 beyond)
Hanning(M) == [i \in 1..M |-> IF M = 1 THEN 1 ELSE Min(i - 1, M - i)]

\* elementwise product of two equally long arrays
Times(x, w) == [i \in 1..Len(x) |-> x[i] * w[i]]

\* np.fft.fft(x, n): x is cropped to n samples or zero-padded to n samples,
\* the result always has n bins.  Twiddle factors are reduced to their sign
\* (exact for n <= 2).
FftInput(x, n) == [j \in 1..n |-> IF j <= Len(x) THEN x[j] ELSE 0]
RECURSIVE BinSum(_, _, _)
BinSum(p, k, j) ==
    IF j = 0 THEN 0
    ELSE (IF ((j - 1) * k) % 2 = 0 THEN p[j] ELSE -p[j]) + BinSum(p, k, j - 1)

\* variant: np.fft.fft(x) without the size argument, one bin per input sample
FftNoPad(x, n) == [k \in 1..Len(x) |-> BinSum(x, k - 1, Len(x))]

Fft(x, n) == LET p == FftInput(x, n) IN [k \in 1..n |-> BinSum(p, k - 1, n)]

\* np.fft.fftshift(X): roll by n // 2
FftShift(X) ==
    LET n == Len(X) IN [i \in 1..n |-> X[((i - 1 - (n \div 2)) % n) + 1]]

\* 20*log10(|X| + 1e-12): monotone in |X|; the row keeps the magnitude
LogPower(X) == [i \in 1..Len(X) |-> Abs(X[i])]

\* variant: rows shifted the other way, new row written at index 0
PushRowReversed(m, row) == [i \in 1..Len(m) |-> IF i = 1 THEN row ELSE m[i - 1]]

\* rolling buffer scroll:  m[:-1, :] = m[1:, :] ;  m[-1, :] = row
PushRow(m, row) == [i \in 1..Len(m) |-> IF i < Len(m) THEN m[i + 1] ELSE row]

\* ------------------------------------------------------------------- state
VARIABLES
    app,               \* which program runs: "main", "cw_main" or "main_3"
    \* SdrModel
    stop_flag, rx_queue, rx_workers, tx_workers, rx_thread, tx_thread,
    rx_stream, tx_stream,
    \* controller
    fft_size, mean_subtraction, iir_dc_block, raw_sample_rate, decimation,
    dc_state, spectrogram_data, timer_active,
    \* SpectrogramView
    view_has_image,
    \* BladeRFRadarHeatmap
    heatmap_data, rx_buffer,
    \* main thread position
    main_pc,
    \* history variables
    nblocks, last_tick, displayed

sdrVars  == <<stop_flag, rx_queue, rx_workers, tx_workers, rx_thread,
              tx_thread, rx_stream, tx_stream>>
cfgVars  == <<app, fft_size, mean_subtraction, iir_dc_block, raw_sample_rate,
              decimation>>
ctrlVars == <<dc_state, spectrogram_data, timer_active, view_has_image>>
radarVars == <<heatmap_data, rx_buffer>>
histVars == <<nblocks, last_tick, displayed>>
vars == <<sdrVars, cfgVars, ctrlVars, radarVars, main_pc, histVars>>


\* ---------------------------------------------------------- input domains
Seeds          == {1, 2}                          \* radar snapshot contents
\* readStream results: SOAPY_SDR_TIMEOUT (-1), SOAPY_SDR_STREAM_ERROR (-2),
\* no samples, or a number of samples
RxStatus       == {-2, -1, 0} \cup (1..MaxStatus)
TxStatus       == {-1, tx_size}                   \* writeStream results
RadarRxStatus  == {-1, 0} \cup (1..(MaxStatus - 1)) \cup {rx_buf_len}
RadarTxStatus  == {-1, rx_buf_len}
CwMainRxStatus == {-1, 0, 1, 500, read_size}

\* dev.readStream(stream, [buff], n): the driver overwrites the first `status`
\* samples of the caller's buffer and leaves the rest as it was.  `buff` may
\* be given as the prefix written so far (see rx_workers).
ReadStream(buff, status, seed) ==
    [i \in 1..Max(Len(buff), status) |->
        IF i <= status THEN seed * 10 + (i - 1) ELSE buff[i]]

\* variant: the quotient is rounded up instead of truncated
DecimationCeil(rate) ==
    LET d == (rate + doppler_rate - 1) \div doppler_rate
    IN IF d < 1 THEN 1 ELSE d

\* int(raw_sample_rate / doppler_rate), then clamped to >= 1
Decimation(rate) ==
    LET d == rate \div doppler_rate IN IF d < 1 THEN 1 ELSE d

\* make_pulse(sample_rate, pulse_width_us=10): Hann-windowed unit tone
pulse_len == (radar_rate * pulse_width_us) \div 1000000
pulse     == Hanning(pulse_len)
corr_len  == rx_buf_len + pulse_len - 1

\* ------------------------------------------------------------ construction
NoTick == [ran |-> FALSE, got |-> 0, rows |-> 0, shown |-> FALSE,
           dc_ops |-> {}]

\* what the view has been given: the object of its first update (a reference
\* to the caller's array or a copy of it) with the contents it had then, and
\* the contents of the matrix at the most recent update
NoDisplay == [kind |-> "none", first |-> <<>>, seen |-> <<>>]

\* SdrModel.__init__ followed by start(): streams active, flag clear, one RX
\* and one TX thread running.  A worker's rx_buff = np.zeros(read_size) is
\* stored as the prefix the driver has written so far; the samples behind it
\* are still the zeros of np.zeros and are never read (status <= read_size).
InitSdr ==
    /\ stop_flag = FALSE
    /\ rx_queue = <<>>
    /\ rx_workers = <<[pc |-> "check", rx_buff |-> <<>>, status |-> 0]>>
    /\ tx_workers = <<[pc |-> "check", status |-> 0]>>
    /\ rx_thread = 1
    /\ tx_thread = 1
    /\ rx_stream = "active"
    /\ tx_stream = "active"

InitHist ==
    /\ nblocks = 0
    /\ last_tick = NoTick
    /\ displayed = NoDisplay

\* main.py: SdrModel + SpectrogramController
InitMain ==
    /\ app = "main"
    /\ InitSdr
    /\ fft_size \in {0, 2}
    /\ mean_subtraction \in BOOLEAN
    /\ iir_dc_block \in BOOLEAN
    /\ fft_size = 0 => (~mean_subtraction /\ iir_dc_block)
    /\ raw_sample_rate = 520834
    /\ decimation = 1
    /\ dc_state = 0
    /\ spectrogram_data = [i \in 1..History |-> Zeros(fft_size)]
    /\ timer_active = FALSE
    /\ view_has_image = FALSE
    /\ heatmap_data = <<>>
    /\ rx_buffer = <<>>
    /\ main_pc = "run"
    /\ InitHist

\* cw_main.py: SdrModel + CW_DopplerController, for several raw rates
InitCw ==
    /\ app = "cw_main"
    /\ InitSdr
    /\ fft_size = 2
    /\ mean_subtraction = FALSE
    /\ iir_dc_block = FALSE
    /\ raw_sample_rate \in {1000, 4000, cw_main_rate}
    /\ decimation = Decimation(raw_sample_rate)
    /\ dc_state = 0
    /\ spectrogram_data = [i \in 1..History |-> Zeros(fft_size)]
    /\ timer_active = FALSE
    /\ view_has_image = FALSE
    /\ heatmap_data = <<>>
    /\ rx_buffer = <<>>
    /\ main_pc = "run"
    /\ InitHist

\* old/main_3.py: BladeRFRadarHeatmap.__init__ (TX stream active, timer started)
InitRadar ==
    /\ app = "main_3"
    /\ stop_flag = FALSE
    /\ rx_queue = <<>>
    /\ rx_workers = <<>>
    /\ tx_workers = <<>>
    /\ rx_thread = 0
    /\ tx_thread = 0
    /\ rx_stream = "none"
    /\ tx_stream = "active"
    /\ fft_size = 0
    /\ mean_subtraction = FALSE
    /\ iir_dc_block = FALSE
    /\ raw_sample_rate = radar_rate
    /\ decimation = 1
    /\ dc_state = 0
    /\ spectrogram_data = <<>>
    /\ timer_active = TRUE
    /\ view_has_image = FALSE
    /\ heatmap_data = [i \in 1..History |-> Zeros(corr_len)]
    /\ rx_buffer = Zeros(rx_buf_len)
    /\ main_pc = "run"
    /\ InitHist

Init == InitMain \/ InitCw \/ InitRadar

\* the process runs (it has not been aborted by an unhandled exception)
Alive == main_pc # "aborted"

\* variant: the loop test ignores the stop flag (`while True:`)
LoopTestForever(flag, body) == body

\* `while not self.stop_flag.is_set():` -- leave the loop or enter the body
LoopTest(flag, body) == IF flag THEN "done" ELSE body

\* every branch on the status (data, no data + sleep, error + sleep) falls
\* through to the loop test
AfterStatus(status) == "check"

\* ------------------------------------------------------ SdrModel._rx_worker
\* while not self.stop_flag.is_set():
RxCheck(w) ==
    /\ Alive
    /\ rx_workers[w].pc = "check"
    /\ rx_workers' = [rx_workers EXCEPT ![w].pc = LoopTest(stop_flag, "read")]
    /\ UNCHANGED <<stop_flag, rx_queue, tx_workers, rx_thread, tx_thread,
                   rx_stream, tx_stream, cfgVars, ctrlVars, radarVars,
                   main_pc, histVars>>

\* variant: the queue holds views of rx_buff (rx_buff[:status] without
\* .copy()), so what the driver writes shows through every queued block
QueuedViews(q, buff) ==
    [i \in 1..Len(q) |->
        [j \in 1..Len(q[i]) |-> IF j <= Len(buff) THEN buff[j] ELSE q[i][j]]]

\* data_chunk = rx_buff[:status].copy(): every queued block has its own
\* memory, so a readStream into rx_buff leaves the queued blocks as they are
QueuedCopies(q, buff) == q

\* sr = self.dev.readStream(self.rx_stream, [rx_buff], read_size, ...)
RxReadStep(w, status, seed) ==
    /\ Alive
    /\ rx_workers[w].pc = "read"
    /\ rx_workers' = [rx_workers EXCEPT
                        ![w].pc = "handle",
                        ![w].status = status,
                        ![w].rx_buff = ReadStream(@, status, seed)]
    /\ rx_queue' = QueuedCopies(rx_queue,
                                ReadStream(rx_workers[w].rx_buff, status, seed))
    /\ UNCHANGED <<stop_flag, tx_workers, rx_thread, tx_thread,
                   rx_stream, tx_stream, cfgVars, ctrlVars, radarVars,
                   main_pc, last_tick, displayed>>

\* the k-th block the driver delivers carries the samples k*10, k*10+1, ...
RxRead(w) ==
    \E status \in RxStatus :
        /\ status > 0 => nblocks < MaxBlocks
        /\ RxReadStep(w, status, nblocks + 1)
        /\ nblocks' = IF status > 0 THEN nblocks + 1 ELSE nblocks

\* variant: `if sr.ret >= 0:` -- an empty block is put for a status of 0
RxPutNonNegative(q, buff, status) ==
    IF status >= 0 THEN Append(q, Slice(buff, status)) ELSE q

\* if status > 0: put a copy of rx_buff[:status]; else back off and retry
RxPut(q, buff, status) ==
    IF status > 0 THEN Append(q, Slice(buff, status)) ELSE q

RxHandle(w) ==
    /\ Alive
    /\ rx_workers[w].pc = "handle"
    /\ rx_queue' = RxPut(rx_queue, rx_workers[w].rx_buff, rx_workers[w].status)
    /\ rx_workers' = [rx_workers EXCEPT
                        ![w].pc = AfterStatus(rx_workers[w].status)]
    /\ UNCHANGED <<stop_flag, tx_workers, rx_thread, tx_thread, rx_stream,
                   tx_stream, cfgVars, ctrlVars, radarVars, main_pc,
                   histVars>>

\* ------------------------------------------------------ SdrModel._tx_worker
\* (the tone's phase accumulator is local to the thread and not modelled)
TxCheck(w) ==
    /\ Alive
    /\ tx_workers[w].pc = "check"
    /\ tx_workers' = [tx_workers EXCEPT ![w].pc = LoopTest(stop_flag, "write")]
    /\ UNCHANGED <<stop_flag, rx_queue, rx_workers, rx_thread, tx_thread,
                   rx_stream, tx_stream, cfgVars, ctrlVars, radarVars,
                   main_pc, histVars>>

\* variant: a TX write error ends the TX worker
TxAfterWriteBreak(status) == IF status < 0 THEN "done" ELSE "check"

\* `if sr.ret < 0:` warn and sleep; either way back to the loop test
TxAfterWrite(status) == "check"

\* sr = self.dev.writeStream(...); a negative result is logged and slept on
TxWrite(w) ==
    /\ Alive
    /\ tx_workers[w].pc = "write"
    /\ \E status \in TxStatus :
          tx_workers' = [tx_workers EXCEPT ![w].pc = TxAfterWrite(status),
                                           ![w].status = status]
    /\ UNCHANGED <<stop_flag, rx_queue, rx_workers, rx_thread, tx_thread,
                   rx_stream, tx_stream, cfgVars, ctrlVars, radarVars,
                   main_pc, histVars>>


\* variant: the consumer empties the queue and keeps the oldest block
ReadSamplesDrain(q) ==
    IF q = <<>>
    THEN [samples |-> <<>>, rest |-> q, popped |-> 0]
    ELSE [samples |-> Head(q), rest |-> <<>>, popped |-> Len(q)]

\* variant: the consumer takes the newest block (a LIFO queue)
ReadSamplesNewest(q) ==
    IF q = <<>>
    THEN [samples |-> <<>>, rest |-> q, popped |-> 0]
    ELSE [samples |-> q[Len(q)], rest |-> SubSeq(q, 1, Len(q) - 1),
          popped |-> 1]

\* --------------------------------------------------- SdrModel.read_samples
\* rx_queue.get_nowait(): the oldest block, or None (<<>>) when empty
ReadSamples(q) ==
    IF q = <<>>
    THEN [samples |-> <<>>, rest |-> q, popped |-> 0]
    ELSE [samples |-> Head(q), rest |-> Tail(q), popped |-> 1]

\* ------------------------------------------------------- DSP building blocks
\* samples - block_mean
SubtractMean(x) == LET m == Mean(x) IN [i \in 1..Len(x) |-> x[i] - m]

\* for i in range(len(samples)):
\*     new_block[i] = samples[i] - dc_state
\*     dc_state = dc_alpha*dc_state + (1-dc_alpha)*samples[i]
\* dc_state is kept in hundredths
RECURSIVE IirDcBlock(_, _, _)
IirDcBlock(x, n, s0) ==
    IF n = 0 THEN [block |-> <<>>, state |-> s0]
    ELSE LET prev == IirDcBlock(x, n - 1, s0)
         IN [block |-> Append(prev.block, x[n] - (prev.state \div 100)),
             state |-> (dc_alpha * prev.state
                        + (100 - dc_alpha) * x[n] * 100) \div 100]

\* _compute_power_spectrum: Hann window of the block's own length, FFT of
\* fft_size bins, shift, log power
ComputePowerSpectrum(samples, n) ==
    LogPower(FftShift(Fft(Times(samples, Hanning(Len(samples))), n)))

\* variant: blocks shorter than the transform size are treated as no data
NoSamplesOrShort(samples) == Len(samples) < fft_size

\* `samples is None or len(samples) == 0`
NoSamples(samples) == Len(samples) = 0

\* variant: the early return is missing in front of update_display
NoRowButShown(data, dc) ==
    [data |-> data, dc |-> dc, rows |-> 0, shown |-> TRUE, seen |-> data,
     dc_ops |-> {}, raised |-> FALSE]

\* a tick that returns early: nothing is written and the view is not called
NoRow(data, dc) ==
    [data |-> data, dc |-> dc, rows |-> 0, shown |-> FALSE, seen |-> <<>>,
     dc_ops |-> {}, raised |-> FALSE]

\* data[:-1] = data[1:] alone: the rows shifted, the last row still the old one
ShiftRows(data) ==
    [i \in 1..Len(data) |-> IF i < Len(data) THEN data[i + 1] ELSE data[i]]

\* variant: the view is updated between the shift and the write of the row
WithRowTorn(data, dc, row, ops) ==
    [data |-> PushRow(data, row), dc |-> dc, rows |-> 1, shown |-> TRUE,
     seen |-> ShiftRows(data), dc_ops |-> ops, raised |-> FALSE]

\* scroll, write the new row, then view.update_display(spectrogram_data);
\* `seen` is the matrix as it is when the view is called
WithRow(data, dc, row, ops) ==
    [data |-> PushRow(data, row), dc |-> dc, rows |-> 1, shown |-> TRUE,
     seen |-> PushRow(data, row), dc_ops |-> ops, raised |-> FALSE]

\* np.fft.fft(x, n=n) raises ValueError for n < 1
FftRaises(n) == n < 1

\* the tick's slot is left by the exception: state written so far stays,
\* no row is pushed and the view is not called
Raised(data, dc, ops) ==
    [data |-> data, dc |-> dc, rows |-> 0, shown |-> FALSE, seen |-> <<>>,
     dc_ops |-> ops, raised |-> TRUE]

\* ---------------------------------- SpectrogramController._process_data
\* variant: the IIR stage runs whatever the flag says
IirStageAlways == TRUE

\* `if self.iir_dc_block:` -- tested on its own, after the mean subtraction
IirStage == iir_dc_block

SpectrogramProcess(samples, data, dc) ==
    IF NoSamples(samples) THEN NoRow(data, dc)
    ELSE LET s1  == IF mean_subtraction THEN SubtractMean(samples) ELSE samples
             iir == IF IirStage THEN IirDcBlock(s1, Len(s1), dc)
                    ELSE [block |-> s1, state |-> dc]
             ops == (IF mean_subtraction THEN {"mean"} ELSE {})
                    \cup (IF IirStage THEN {"iir"} ELSE {})
         IN IF FftRaises(fft_size) THEN Raised(data, iir.state, ops)
            ELSE WithRow(data, iir.state,
                         ComputePowerSpectrum(iir.block, fft_size), ops)

\* ------------------------------------ CW_DopplerController._process_data
\* samples * exp(-j*2*pi*cw_freq_offset*t) with cw_freq_offset = 0.0
Mix(samples) == [i \in 1..Len(samples) |-> samples[i] * 1]

\* variant: comparison turned around
TooShortInverted(decimated, n) == Len(decimated) > n

\* `len(decimated) < self.fft_size`
TooShort(decimated, n) == Len(decimated) < n

CwProcess(samples, data, dc) ==
    IF NoSamples(samples) THEN NoRow(data, dc)
    ELSE LET decimated == Stride(Mix(samples), decimation)
         IN IF TooShort(decimated, fft_size) THEN NoRow(data, dc)
            ELSE LET data_block == SubtractMean(Slice(decimated, fft_size))
                 IN IF FftRaises(fft_size) THEN Raised(data, dc, {"mean"})
                    ELSE WithRow(data, dc,
                                 ComputePowerSpectrum(data_block, fft_size),
                                 {"mean"})

\* variant: the view is handed a copy of the matrix
UpdateDisplayCopy(d, m) ==
    [kind  |-> IF d.kind = "none" THEN "copy" ELSE d.kind,
     first |-> IF d.kind = "none" THEN m ELSE d.first,
     seen  |-> m]

\* update_display(spectrogram_data): data_t = spectrogram_data.T is a view on
\* the controller's own array, and that view is what setImage is given
UpdateDisplay(d, m) ==
    [kind  |-> IF d.kind = "none" THEN "ref" ELSE d.kind,
     first |-> IF d.kind = "none" THEN m ELSE d.first,
     seen  |-> m]

\* the view after a tick with result res
Display(d, res) == IF res.shown THEN UpdateDisplay(d, res.seen) ELSE d

\* an exception that leaves a Qt slot is printed and the event loop goes on,
\* or it aborts the process, depending on the PyQt5 build
AfterTick(res) == IF res.raised THEN {"run", "aborted"} ELSE {"run"}

\* one timer tick of the controller wired by `app`
TickStep(res, r) ==
    /\ rx_queue' = r.rest
    /\ spectrogram_data' = res.data
    /\ dc_state' = res.dc
    /\ view_has_image' = (view_has_image \/ res.shown)
    /\ displayed' = Display(displayed, res)
    /\ last_tick' = [ran |-> TRUE, got |-> Len(r.samples),
                     rows |-> res.rows, shown |-> res.shown,
                     dc_ops |-> res.dc_ops]
    /\ main_pc' \in AfterTick(res)
    /\ UNCHANGED <<stop_flag, rx_workers, tx_workers, rx_thread, tx_thread,
                   rx_stream, tx_stream, cfgVars, timer_active, radarVars,
                   nblocks>>

SpectrogramTick ==
    /\ app = "main" /\ main_pc = "run" /\ timer_active
    /\ LET r == ReadSamples(rx_queue)
       IN TickStep(SpectrogramProcess(r.samples, spectrogram_data, dc_state), r)

CwTick ==
    /\ app = "cw_main" /\ main_pc = "run" /\ timer_active
    /\ LET r == ReadSamples(rx_queue)
       IN TickStep(CwProcess(r.samples, spectrogram_data, dc_state), r)

\* ------------------------------------------- controller start / stop / close
\* controller.start(): self.timer.start()
CtrlStart ==
    /\ app \in {"main", "cw_main"} /\ main_pc = "run" /\ ~timer_active
    /\ timer_active' = TRUE
    /\ UNCHANGED <<sdrVars, cfgVars, dc_state, spectrogram_data,
                   view_has_image, radarVars, main_pc, histVars>>

\* controller.stop(): self.timer.stop()
CtrlStop ==
    /\ app \in {"main", "cw_main"} /\ main_pc = "run" /\ timer_active
    /\ timer_active' = FALSE
    /\ UNCHANGED <<sdrVars, cfgVars, dc_state, spectrogram_data,
                   view_has_image, radarVars, main_pc, histVars>>

\* variant: close() tears the streams down without calling stop() first
ModelCloseNoStop == "stopped"

\* SdrModel.close(): its first statement is self.stop()
ModelClose == "stop_set"

\* controller.close(): self.stop(), then self.model.close() is entered
CtrlClose ==
    /\ app \in {"main", "cw_main"} /\ main_pc = "run"
    /\ timer_active' = FALSE
    /\ main_pc' = ModelClose
    /\ UNCHANGED <<sdrVars, cfgVars, dc_state, spectrogram_data,
                   view_has_image, radarVars, histVars>>

\* SdrModel.stop(): self.stop_flag.set()
StopSetFlag ==
    /\ main_pc = "stop_set"
    /\ stop_flag' = TRUE
    /\ main_pc' = "join_rx"
    /\ UNCHANGED <<rx_queue, rx_workers, tx_workers, rx_thread, tx_thread,
                   rx_stream, tx_stream, cfgVars, ctrlVars, radarVars,
                   histVars>>

\* variant: stop() sets the flag and returns without joining
JoinedNoWait(workers, t) == TRUE

\* thread.join() returns once the thread's target function has returned
Joined(workers, t) == t = 0 \/ workers[t].pc = "done"

\* if self.rx_thread: self.rx_thread.join()
StopJoinRx ==
    /\ main_pc = "join_rx"
    /\ Joined(rx_workers, rx_thread)
    /\ main_pc' = "join_tx"
    /\ UNCHANGED <<sdrVars, cfgVars, ctrlVars, radarVars, histVars>>

\* if self.tx_thread: self.tx_thread.join() ; stop() returns
StopJoinTx ==
    /\ main_pc = "join_tx"
    /\ Joined(tx_workers, tx_thread)
    /\ main_pc' = "stopped"
    /\ UNCHANGED <<sdrVars, cfgVars, ctrlVars, radarVars, histVars>>

\* SdrModel.close() after stop(): deactivateStream + closeStream (RX)
CloseRxStream ==
    /\ main_pc = "stopped"
    /\ rx_stream' = "closed"
    /\ main_pc' = "close_tx"
    /\ UNCHANGED <<stop_flag, rx_queue, rx_workers, tx_workers, rx_thread,
                   tx_thread, tx_stream, cfgVars, ctrlVars, radarVars,
                   histVars>>

\* deactivateStream + closeStream (TX)
CloseTxStream ==
    /\ main_pc = "close_tx"
    /\ tx_stream' = "closed"
    /\ main_pc' = "closed"
    /\ UNCHANGED <<stop_flag, rx_queue, rx_workers, tx_workers, rx_thread,
                   tx_thread, rx_stream, cfgVars, ctrlVars, radarVars,
                   histVars>>


\* ------------------------------------- BladeRFRadarHeatmap.radar_update
\* np.correlate(a, v, mode='full'): Len(a) + Len(v) - 1 lags,
\* c[j] = sum over n of a[n + j - Len(v)] * v[n]
RECURSIVE CorrSum(_, _, _, _)
CorrSum(a, v, lag, n) ==
    IF n = 0 THEN 0
    ELSE (IF n + lag >= 1 /\ n + lag <= Len(a) THEN a[n + lag] * v[n] ELSE 0)
         + CorrSum(a, v, lag, n - 1)
Correlate(a, v) ==
    [j \in 1..(Len(a) + Len(v) - 1) |-> CorrSum(a, v, j - Len(v), Len(v))]

\* np.abs(corr)
Magnitude(c) == [i \in 1..Len(c) |-> Abs(c[i])]

\* "Pad/clip to corr_len"
PadClip(c, n) ==
    IF Len(c) < n THEN [i \in 1..n |-> IF i <= Len(c) THEN c[i] ELSE 0]
    ELSE Slice(c, n)

\* the part of radar_update after the snapshot read
RadarProcess(ret, buff, data) ==
    IF ret < 0 THEN NoRow(data, 0)
    ELSE IF ret = 0 THEN NoRow(data, 0)
    ELSE LET rx_samples == Slice(buff, ret)
             corr_mag   == Magnitude(Correlate(rx_samples, pulse))
         IN WithRow(data, 0, PadClip(corr_mag, corr_len), {})

\* variant: the error return comes before deactivateStream / closeStream
SnapshotStreamLeak(rxret) == IF rxret < 0 THEN "active" ELSE "closed"

\* setupStream, activateStream, readStream, then deactivateStream and
\* closeStream right behind the read, before rxr.ret is looked at
SnapshotStream(rxret) == "closed"

\* one timer tick: TX one buffer, set up + activate RX, read once,
\* deactivate + close RX, correlate, scroll the heatmap, set the image
RadarUpdate ==
    /\ app = "main_3" /\ main_pc = "run" /\ timer_active
    /\ \E txret \in RadarTxStatus, rxret \in RadarRxStatus, seed \in Seeds :
         /\ rxret <= 0 => seed = 1
         /\ LET buff == ReadStream(rx_buffer, rxret, seed)
                res  == RadarProcess(rxret, buff, heatmap_data)
            IN /\ rx_buffer' = buff
               /\ heatmap_data' = res.data
               /\ view_has_image' = (view_has_image \/ res.shown)
               /\ displayed' = Display(displayed, res)
               /\ last_tick' = [ran |-> TRUE,
                                got |-> IF rxret > 0 THEN rxret ELSE 0,
                                rows |-> res.rows, shown |-> res.shown,
                                dc_ops |-> res.dc_ops]
               /\ rx_stream' = SnapshotStream(rxret)
    /\ UNCHANGED <<stop_flag, rx_queue, rx_workers, tx_workers, rx_thread,
                   tx_thread, tx_stream, cfgVars, dc_state, spectrogram_data,
                   timer_active, main_pc, nblocks>>

\* closeEvent: deactivate and close the TX stream
RadarClose ==
    /\ app = "main_3" /\ main_pc = "run"
    /\ tx_stream' = "closed"
    /\ timer_active' = FALSE
    /\ main_pc' = "closed"
    /\ UNCHANGED <<stop_flag, rx_queue, rx_workers, tx_workers, rx_thread,
                   tx_thread, rx_stream, cfgVars, dc_state, spectrogram_data,
                   view_has_image, radarVars, histVars>>

\* ------------------------------------------------------------ specification
Next ==
    \/ \E w \in 1..Len(rx_workers) : RxCheck(w)
    \/ \E w \in 1..Len(rx_workers) : RxRead(w)
    \/ \E w \in 1..Len(rx_workers) : RxHandle(w)
    \/ \E w \in 1..Len(tx_workers) : TxCheck(w)
    \/ \E w \in 1..Len(tx_workers) : TxWrite(w)
    \/ SpectrogramTick
    \/ CwTick
    \/ CtrlStart
    \/ CtrlStop
    \/ CtrlClose
    \/ StopSetFlag
    \/ StopJoinRx
    \/ StopJoinTx
    \/ CloseRxStream
    \/ CloseTxStream
    \/ RadarUpdate
    \/ RadarClose

Spec == Init /\ [][Next]_vars

\* ----------------------------------------- cw_main.py run that never closes
\* cw_main.main: sample_rate=520834, fft_size=1024; the driver keeps
\* delivering blocks and the timer keeps ticking
InitCwMain ==
    /\ app = "cw_main"
    /\ InitSdr
    /\ fft_size = cw_main_fft
    /\ mean_subtraction = FALSE
    /\ iir_dc_block = FALSE
    /\ raw_sample_rate = cw_main_rate
    /\ decimation = Decimation(raw_sample_rate)
    /\ dc_state = 0
    /\ spectrogram_data = [i \in 1..History |-> Zeros(fft_size)]
    /\ timer_active = FALSE
    /\ view_has_image = FALSE
    /\ heatmap_data = <<>>
    /\ rx_buffer = <<>>
    /\ main_pc = "run"
    /\ InitHist

\* readStream results with data, while the queue is below the horizon
RxReadData(w) ==
    \E status \in CwMainRxStatus :
        /\ status > 0
        /\ Len(rx_queue) < MaxQueue
        /\ RxReadStep(w, status, 1)
        /\ UNCHANGED nblocks

\* readStream results without data (timeout or error)
RxReadNoData(w) ==
    \E status \in CwMainRxStatus :
        /\ status <= 0
        /\ RxReadStep(w, status, 1)
        /\ UNCHANGED nblocks

NextCwMain ==
    \/ RxCheck(1)
    \/ RxReadData(1)
    \/ RxReadNoData(1)
    \/ RxHandle(1)
    \/ TxCheck(1)
    \/ TxWrite(1)
    \/ CtrlStart
    \/ CwTick

\* the RX thread and the Qt timer are scheduled again and again; the driver
\* delivers data again and again
SpecCwMain ==
    /\ InitCwMain
    /\ [][NextCwMain]_vars
    /\ WF_vars(RxCheck(1))
    /\ WF_vars(RxHandle(1))
    /\ SF_vars(RxReadData(1))
    /\ WF_vars(CtrlStart)
    /\ WF_vars(CwTick)


\* ------------------------------------------ main.py run with a fair scheduler
\* main.main: SpectrogramController(mean_subtraction=True, iir_dc_block=False)
InitStop ==
    /\ InitMain
    /\ fft_size = 2
    /\ mean_subtraction /\ ~iir_dc_block

NextStop ==
    \/ RxCheck(1)
    \/ RxRead(1)
    \/ RxHandle(1)
    \/ TxCheck(1)
    \/ TxWrite(1)
    \/ CtrlStart
    \/ SpectrogramTick
    \/ CtrlStop
    \/ CtrlClose
    \/ StopSetFlag
    \/ StopJoinRx
    \/ StopJoinTx
    \/ CloseRxStream
    \/ CloseTxStream

\* both worker threads and the main thread inside close() keep being
\* scheduled, and every readStream / writeStream call returns (timeoutUs)
SpecStop ==
    /\ InitStop
    /\ [][NextStop]_vars
    /\ WF_vars(RxCheck(1))
    /\ WF_vars(RxRead(1))
    /\ WF_vars(RxHandle(1))
    /\ WF_vars(TxCheck(1))
    /\ WF_vars(TxWrite(1))
    /\ WF_vars(StopSetFlag)
    /\ WF_vars(StopJoinRx)
    /\ WF_vars(StopJoinTx)


\* ------------------------------ main.py run that is never closed, fair ticks
NextFifo ==
    \/ RxCheck(1)
    \/ RxRead(1)
    \/ RxHandle(1)
    \/ TxCheck(1)
    \/ TxWrite(1)
    \/ CtrlStart
    \/ SpectrogramTick

\* a SpectrogramController tick can run and changes the state: the timer is
\* active and the tick finds a block or is the first tick to find none
TickEnabled ==
    /\ app = "main" /\ main_pc = "run" /\ timer_active
    /\ (rx_queue # <<>> \/ last_tick # [NoTick EXCEPT !.ran = TRUE])

\* the window stays open: the worker threads keep being scheduled, the timer
\* is started (main.py calls controller.start()) and keeps firing; the last
\* conjunct is WF_vars(SpectrogramTick) with its enabling condition written out
SpecFifo ==
    /\ InitStop
    /\ [][NextFifo]_vars
    /\ WF_vars(RxCheck(1))
    /\ WF_vars(RxRead(1))
    /\ WF_vars(RxHandle(1))
    /\ WF_vars(CtrlStart)
    /\ ([]<>(~TickEnabled) \/ []<><<SpectrogramTick>>_vars)


\* --------------------------------- SdrModel driven through its public methods
\* SdrModel.start() called on a constructed model: clears the flag, creates a
\* new RX and a new TX thread, stores them over the old references and
\* starts them; nothing looks at the threads that are already there
ModelStart ==
    /\ app = "main" /\ main_pc = "run"
    /\ Len(rx_workers) < MaxThreads
    /\ stop_flag' = FALSE
    /\ rx_workers' = Append(rx_workers,
                            [pc |-> "check", rx_buff |-> <<>>, status |-> 0])
    /\ rx_thread' = Len(rx_workers) + 1
    /\ tx_workers' = Append(tx_workers, [pc |-> "check", status |-> 0])
    /\ tx_thread' = Len(tx_workers) + 1
    /\ UNCHANGED <<rx_queue, rx_stream, tx_stream, cfgVars, ctrlVars,
                   radarVars, main_pc, histVars>>

\* readStream results of these runs: a timeout or one sample
ApiRxStatus == {-1, 1}

RxReadApi(w) ==
    \E status \in ApiRxStatus :
        /\ status > 0 => nblocks < MaxBlocks
        /\ RxReadStep(w, status, nblocks + 1)
        /\ nblocks' = IF status > 0 THEN nblocks + 1 ELSE nblocks

\* main.py wiring with the timer never started; the owner of the model may
\* call start() again and closes the model through the controller
NextApi ==
    \/ \E w \in 1..Len(rx_workers) : RxCheck(w)
    \/ \E w \in 1..Len(rx_workers) : RxReadApi(w)
    \/ \E w \in 1..Len(rx_workers) : RxHandle(w)
    \/ \E w \in 1..Len(tx_workers) : TxCheck(w)
    \/ \E w \in 1..Len(tx_workers) : TxWrite(w)
    \/ ModelStart
    \/ CtrlClose
    \/ StopSetFlag
    \/ StopJoinRx
    \/ StopJoinTx
    \/ CloseRxStream
    \/ CloseTxStream

SpecApi == InitStop /\ [][NextApi]_vars


\* ------------------------------------------------------------------ claims
\* the rolling buffer of the running program and its row width
Buffer == IF app = "main_3" THEN heatmap_data ELSE spectrogram_data
Bins   == IF app = "main_3" THEN corr_len ELSE fft_size

\* a controller tick (either controller)
Tick == SpectrogramTick \/ CwTick

\* blocks the RX worker has finished putting on rx_queue
Pushed ==
    nblocks - Cardinality({w \in 1..Len(rx_workers) :
                  rx_workers[w].pc = "handle" /\ rx_workers[w].status > 0})

\* stop() has returned
StopReturned ==
    app \in {"main", "cw_main"} /\ main_pc \in {"stopped", "close_tx", "closed"}

\* number of samples left of a block of n samples by mixed[::decimation]
DecimatedLen(n) == (n + decimation - 1) \div decimation

\* The capacity N of the claims about a bounded channel.  queue.Queue() is
\* given no maxsize, so N is taken as large as a run of MaxBlocks delivered
\* blocks can tell apart; every smaller N is exceeded by the same runs.
QueueCapacity == MaxBlocks - 1

\* C1: the number of blocks on rx_queue never exceeds the fixed capacity N,
\* whatever the interleaving of worker pushes and ticks.
C1_QueueBounded == Len(rx_queue) <= QueueCapacity

\* C2: once N+1 blocks were pushed and no tick has popped any, the oldest
\* block is gone and rx_queue holds the N most recent blocks (the 2nd ..
\* N+1st delivered) in arrival order.
C2_DropOnOverflow ==
    (~last_tick.ran /\ Pushed = QueueCapacity + 1)
        => /\ Len(rx_queue) = QueueCapacity
           /\ \A i \in 1..QueueCapacity : rx_queue[i][1] = (i + 1) * 10

\* C3 (as claimed): every tick removes every block queued at that moment,
\* so rx_queue is empty of them when the tick ends.
C3_DrainAll == [][Tick => rx_queue' = <<>>]_vars

\* C3 (amended): a tick takes at most one block off rx_queue, the oldest one,
\* leaves the blocks behind it queued in arrival order, and appends at most
\* one row, so the rolling buffer advances by at most one row per tick.
C3_OneBlockPerTick ==
    [][Tick =>
        /\ rx_queue = <<>> => (rx_queue' = <<>> /\ last_tick'.got = 0)
        /\ rx_queue # <<>> =>
              /\ Len(rx_queue') = Len(rx_queue) - 1
              /\ \A i \in 1..Len(rx_queue') : rx_queue'[i] = rx_queue[i + 1]
              /\ last_tick'.got = Len(rx_queue[1])
        /\ last_tick'.rows <= 1
        /\ \/ spectrogram_data' = spectrogram_data
           \/ \A i \in 1..(History - 1) :
                 spectrogram_data'[i] = spectrogram_data[i + 1]]_vars

C3_Witness ==
    /\ last_tick.ran /\ last_tick.got > 0 /\ last_tick.rows = 1
    /\ rx_queue # <<>>

\* C4: once stop() has returned, every worker thread has left its loop, no
\* block is put on rx_queue any more and no worker issues readStream or
\* writeStream (no worker changes its position or its buffers).
C4_NoProduceAfterStop ==
    /\ [](StopReturned =>
             /\ stop_flag
             /\ \A w \in 1..Len(rx_workers) : rx_workers[w].pc = "done"
             /\ \A w \in 1..Len(tx_workers) : tx_workers[w].pc = "done")
    /\ [][StopReturned =>
             /\ rx_queue' = rx_queue
             /\ rx_workers' = rx_workers
             /\ tx_workers' = tx_workers]_vars

C4_Witness ==
    /\ main_pc = "stopped"
    /\ rx_queue # <<>>
    /\ nblocks = Len(rx_queue)

\* C5: a row push turns the matrix into the previous matrix without its
\* oldest row and with the new row at the newest end; the matrix always has
\* History rows of Bins columns.
C5_RollingFifo ==
    /\ [](Len(Buffer) = History /\ \A i \in 1..History : Len(Buffer[i]) = Bins)
    /\ [][((Tick \/ RadarUpdate) /\ last_tick'.rows = 1) =>
             /\ Len(Buffer') = Len(Buffer)
             /\ SubSeq(Buffer', 1, History - 1) = SubSeq(Buffer, 2, History)]_vars
    /\ [][((Tick \/ RadarUpdate) /\ last_tick'.rows = 0) =>
             Buffer' = Buffer]_vars

C5_Witness ==
    /\ last_tick.rows = 1
    /\ \E k \in 1..Bins : Buffer[1][k] # 0
    /\ Buffer[History] # Buffer[1]

\* the tick's block is shorter than the transform size (fft_size, after
\* decimation in the CW pipeline) or the snapshot shorter than rx_buf_len
ShortTick ==
    /\ last_tick.ran
    /\ last_tick.got > 0
    /\ CASE app = "main"    -> last_tick.got < fft_size
         [] app = "cw_main" -> DecimatedLen(last_tick.got) < fft_size
         [] app = "main_3"  -> last_tick.got < rx_buf_len

\* C6 (as claimed): in all three pipelines a tick with a short block appends
\* no row.
C6_SkipOnUnderflowAll == ShortTick => last_tick.rows = 0

\* C6 (amended): a tick with a short block appends no row in the CW Doppler
\* pipeline only; SpectrogramController and the correlation pipeline
\* zero-pad and append exactly one row.
C6_SkipOnlyInCw ==
    ShortTick => /\ app = "cw_main" => last_tick.rows = 0
                 /\ app # "cw_main" => last_tick.rows = 1 /\ last_tick.shown

C6_Witness == ShortTick /\ app = "main_3" /\ last_tick.rows = 1

\* C7: a CW_DopplerController tick whose block decimates to fewer than
\* fft_size samples leaves spectrogram_data unchanged and does not call
\* update_display.
C7_CwSkip ==
    [][(CwTick /\ rx_queue # <<>>
              /\ DecimatedLen(Len(rx_queue[1])) < fft_size) =>
          /\ spectrogram_data' = spectrogram_data
          /\ view_has_image' = view_has_image
          /\ last_tick'.rows = 0
          /\ ~last_tick'.shown]_vars

C7_Witness ==
    /\ app = "cw_main" /\ decimation = 1
    /\ last_tick.ran /\ last_tick.got > 0 /\ last_tick.rows = 0

\* C8: in the cw_main wiring, with the driver delivering blocks and the
\* timer ticking again and again, a row is eventually appended and shown.
C8_ContinuousUpdate == <>(last_tick.rows > 0 /\ last_tick.shown)

\* C9: every row of the rolling buffer has exactly Bins elements, whatever
\* the length of the block it was computed from.
C9_RowWidth == \A i \in 1..Len(Buffer) : Len(Buffer[i]) = Bins

C9_Witness ==
    /\ app = "main" /\ last_tick.rows = 1 /\ last_tick.got > fft_size
    /\ \E k \in 1..Bins : Buffer[History][k] # 0

\* C10: a tick on an empty queue runs to its end without a block (the main
\* thread is free for the next event); it leaves the rolling buffer, the IIR
\* DC state and the queue unchanged, appends no row and does not update the
\* display.
C10_EmptyTick ==
    [][(Tick /\ rx_queue = <<>>) =>
             /\ UNCHANGED <<spectrogram_data, dc_state, rx_queue,
                            view_has_image>>
             /\ last_tick'.ran /\ main_pc' = "run"
             /\ last_tick'.got = 0
             /\ last_tick'.rows = 0
             /\ ~last_tick'.shown]_vars

C10_Witness ==
    /\ app \in {"main", "cw_main"}
    /\ last_tick.ran /\ last_tick.got = 0
    /\ view_has_image

\* C11 (as claimed): an RX worker that is returned a stream error (a negative
\* status other than a timeout) leaves its loop, and the failure is acted on:
\* the worker is done although nobody has set the stop flag.
C11_FatalExits ==
    [][\A w \in 1..Len(rx_workers) :
          (RxHandle(w) /\ rx_workers[w].status < -1) =>
              rx_workers'[w].pc = "done"]_vars

\* C19: handling a readStream result of status > 0 puts exactly one block of
\* exactly the first `status` samples of rx_buff on the queue; a status of 0
\* or below puts nothing; in all three cases the worker goes back to its loop
\* test, which sends it to the next read unless the stop flag is set, so a
\* worker is done only with the flag set.
C19_RxStatusHandling ==
    /\ [][\A w \in 1..Len(rx_workers) : RxHandle(w) =>
             LET st == rx_workers[w].status
             IN /\ st > 0 =>
                     /\ Len(rx_queue') = Len(rx_queue) + 1
                     /\ SubSeq(rx_queue', 1, Len(rx_queue)) = rx_queue
                     /\ rx_queue'[Len(rx_queue')]
                            = SubSeq(rx_workers[w].rx_buff, 1, st)
                     /\ Len(rx_queue'[Len(rx_queue')]) = st
                /\ st <= 0 => rx_queue' = rx_queue
                /\ rx_workers'[w].pc = "check"]_vars
    /\ [][\A w \in 1..Len(rx_workers) : RxCheck(w) =>
             rx_workers'[w].pc = IF stop_flag THEN "done" ELSE "read"]_vars
    /\ [](\A w \in 1..Len(rx_workers) :
             rx_workers[w].pc = "done" => stop_flag)

C19_Witness ==
    /\ app = "main"
    /\ ~stop_flag
    /\ rx_workers[1].pc = "handle" /\ rx_workers[1].status = 0
    /\ Len(rx_queue) = 1 /\ Len(rx_queue[1]) = 2

\* C20: a negative writeStream result sends the TX worker back to its loop
\* test and changes nothing else: not the RX worker, the queue, the stop
\* flag, the streams or the main thread; the TX worker and the RX worker are
\* done only with the stop flag set.
C20_TxErrorsNotFatal ==
    /\ [][\A w \in 1..Len(tx_workers) :
             (TxWrite(w) /\ tx_workers'[w].status < 0) =>
                 /\ tx_workers'[w].pc = "check"
                 /\ UNCHANGED <<rx_workers, rx_queue, stop_flag, rx_stream,
                                tx_stream, main_pc>>]_vars
    /\ [][\A w \in 1..Len(tx_workers) : TxCheck(w) =>
             tx_workers'[w].pc = IF stop_flag THEN "done" ELSE "write"]_vars
    /\ [](\A w \in 1..Len(tx_workers) :
             tx_workers[w].pc = "done" => stop_flag)
    /\ [](\A w \in 1..Len(rx_workers) :
             (rx_workers[w].pc = "done" /\ tx_workers[1].status < 0)
                 => stop_flag)

C20_Witness ==
    /\ app = "main"
    /\ ~stop_flag
    /\ tx_workers[1].pc = "write" /\ tx_workers[1].status < 0
    /\ rx_workers[1].pc = "read"
    /\ Len(rx_queue) = 2

\* a configuration the controllers are constructed with that has no valid
\* reading: int(raw_sample_rate / doppler_rate) below 1, or a transform of
\* zero bins
ConfigError ==
    \/ app = "cw_main" /\ raw_sample_rate \div doppler_rate < 1
    \/ app \in {"main", "cw_main"} /\ fft_size = 0

\* C12 (as claimed): no worker thread ever runs under an invalid
\* configuration: no thread is started, nothing is read from the driver and
\* nothing is transmitted.
C12_RejectedBeforeStart ==
    ConfigError =>
        /\ \A w \in 1..Len(rx_workers) :
              rx_workers[w].pc = "check" /\ rx_workers[w].rx_buff = <<>>
        /\ \A w \in 1..Len(tx_workers) : tx_workers[w].pc = "check"
        /\ rx_queue = <<>>

\* C13 (as claimed): at most one of block-mean subtraction and IIR high-pass
\* removal is applied to the block a SpectrogramController tick processes.
C13_DcModesExclusive ==
    app = "main" => Cardinality(last_tick.dc_ops) <= 1

\* C14: in the SdrModel programs the timer is stopped before the stop flag
\* is set; a stream is closed only with the flag set, every worker out of
\* its loop and stop() returned, RX before TX; and every readStream and
\* writeStream a worker issues finds its stream active.
C14_OrderedShutdown ==
    /\ [](app \in {"main", "cw_main"} =>
             /\ stop_flag => ~timer_active
             /\ main_pc \in {"join_rx", "join_tx", "stopped", "close_tx",
                              "closed"} => stop_flag
             /\ (rx_stream # "active" \/ tx_stream # "active") =>
                   /\ stop_flag
                   /\ main_pc \in {"close_tx", "closed"}
                   /\ \A w \in 1..Len(rx_workers) : rx_workers[w].pc = "done"
                   /\ \A w \in 1..Len(tx_workers) : tx_workers[w].pc = "done"
             /\ tx_stream = "closed" => rx_stream = "closed")
    /\ [][\A w \in 1..Len(rx_workers) :
             (rx_workers[w].pc = "read" /\ rx_workers'[w].pc # "read") =>
                 rx_stream = "active" /\ rx_stream' = "active"]_vars
    /\ [][\A w \in 1..Len(tx_workers) :
             (tx_workers[w].pc = "write" /\ tx_workers'[w].pc # "write") =>
                 tx_stream = "active" /\ tx_stream' = "active"]_vars

C14_Witness ==
    /\ app = "cw_main"
    /\ main_pc = "closed" /\ rx_stream = "closed" /\ tx_stream = "closed"
    /\ rx_workers[1].rx_buff # <<>> /\ tx_workers[1].status = tx_size
    /\ view_has_image

\* C18: for the block of length L a CW tick takes from the queue and the
\* controller's decimation factor D >= 1, mixed[::D] has m elements where m
\* is the least integer with m*D >= L, its k-th element (from 0) is the
\* block's (k*D)-th sample, and the tick appends a row exactly when m is at
\* least fft_size.
C18_Decimation ==
    [][(CwTick /\ rx_queue # <<>>) =>
          LET x   == Head(rx_queue)
              D   == decimation
              dec == Stride(Mix(x), D)
              m   == Len(dec)
          IN /\ D >= 1
             /\ m * D >= Len(x) /\ (m - 1) * D < Len(x)
             /\ \A k \in 0..(m - 1) : dec[k + 1] = x[k * D + 1]
             /\ last_tick'.rows = 1 <=> m >= fft_size]_vars

C18_Witness ==
    /\ app = "cw_main" /\ decimation = 2
    /\ last_tick.ran /\ last_tick.got = 3 /\ last_tick.rows = 1

\* the contents, now, of the object the view was given at its first update
HeldNow == IF displayed.kind = "ref" THEN Buffer ELSE displayed.first

\* C16 (as claimed): the matrix the view was given keeps the contents it had
\* when it was handed over, whatever is pushed on later ticks.
C16_ImmutableSnapshot ==
    displayed.kind # "none" => HeldNow = displayed.first

\* C16 (amended): the view is given the controller's live rolling buffer, so
\* the object it holds always has the buffer's current contents, also after
\* later pushes.
C16_LiveBuffer ==
    displayed.kind # "none" => HeldNow = Buffer

C16_Witness ==
    /\ app = "main" /\ displayed.kind = "ref"
    /\ last_tick.rows = 1
    /\ displayed.first # Buffer

\* C17: the view is called on exactly the ticks that append a row; the
\* matrix it is given is the buffer after the complete push (older rows
\* shifted by one, the new row in place); a tick without a row leaves the
\* view as it was.
C17_NoTornRows ==
    [][(Tick \/ RadarUpdate) =>
          /\ last_tick'.shown <=> last_tick'.rows = 1
          /\ last_tick'.shown =>
                /\ displayed'.seen = Buffer'
                /\ SubSeq(Buffer', 1, History - 1) = SubSeq(Buffer, 2, History)
          /\ ~last_tick'.shown => displayed' = displayed]_vars

C17_Witness ==
    /\ app = "main"
    /\ last_tick.shown /\ displayed.seen = Buffer
    /\ Buffer[History] # Buffer[History - 1]
    /\ rx_queue # <<>>

\* C15: once the stop flag is set, both workers eventually leave their loops
\* and stop() eventually returns, whatever statuses readStream and
\* writeStream keep returning.
C15_StopTerminates ==
    stop_flag ~> (/\ StopReturned
                  /\ rx_workers[1].pc = "done"
                  /\ tx_workers[1].pc = "done")

C15_Witness ==
    /\ app = "main" /\ main_pc = "stopped"
    /\ rx_workers[1].pc = "done" /\ rx_workers[1].status < 0
    /\ tx_workers[1].pc = "done" /\ tx_workers[1].status < 0

C22_DcStateFrame ==
    /\ [][dc_state' # dc_state =>
             SpectrogramTick /\ rx_queue # <<>> /\ iir_dc_block]_vars
    /\ [][(SpectrogramTick /\ rx_queue # <<>> /\ iir_dc_block) =>
             LET x  == Head(rx_queue)
                 s1 == IF mean_subtraction THEN SubtractMean(x) ELSE x
             IN dc_state' = IirDcBlock(s1, Len(s1), dc_state).state]_vars
    /\ [][(CtrlStart \/ CtrlStop \/ (Tick /\ rx_queue = <<>>)
               \/ (Tick /\ ~iir_dc_block)) =>
             dc_state' = dc_state]_vars

C22_Witness ==
    /\ app = "main" /\ iir_dc_block /\ fft_size = 2
    /\ nblocks = 2 /\ rx_queue = <<>> /\ last_tick.got > 0
    /\ dc_state # 0 /\ ~timer_active /\ main_pc = "run"

\* C23: the CW controller's decimation factor is the whole part of
\* raw_sample_rate / doppler_rate, or 1 when the raw rate is below the
\* target rate, and no step changes it.
C23_DecimationFactor ==
    /\ [](app = "cw_main" =>
             /\ decimation >= 1
             /\ raw_sample_rate >= doppler_rate =>
                   /\ decimation * doppler_rate <= raw_sample_rate
                   /\ (decimation + 1) * doppler_rate > raw_sample_rate
             /\ raw_sample_rate < doppler_rate => decimation = 1)
    /\ [][decimation' = decimation /\ raw_sample_rate' = raw_sample_rate]_vars

C23_Witness ==
    /\ app = "cw_main" /\ raw_sample_rate < doppler_rate /\ decimation = 1
    /\ last_tick.ran /\ last_tick.rows = 1

\* C27: every radar_update tick leaves the RX stream it set up closed, for
\* every read result and every TX result, so the snapshot program never has
\* an RX stream open between ticks; a tick whose read returns zero samples
\* or an error leaves the heatmap unchanged and does not set the image.
C27_SnapshotStreamClosed ==
    /\ [](app = "main_3" => rx_stream \in {"none", "closed"})
    /\ [][RadarUpdate => rx_stream' = "closed"]_vars
    /\ [][(RadarUpdate /\ last_tick'.got = 0) =>
             /\ heatmap_data' = heatmap_data
             /\ view_has_image' = view_has_image
             /\ last_tick'.rows = 0]_vars

C27_Witness ==
    /\ app = "main_3" /\ rx_stream = "closed"
    /\ last_tick.ran /\ last_tick.got = 0
    /\ view_has_image
    /\ \E k \in 1..corr_len : heatmap_data[History][k] # 0

\* C26: a readStream that refills the worker's rx_buff leaves every queued
\* block as it is; the queue only ever changes by a block being appended
\* behind the queued ones or by its oldest block being taken; and every
\* queued block holds the consecutive samples of the one read it came from.
C26_OwnershipTransfer ==
    /\ [][\A w \in 1..Len(rx_workers) :
             (rx_workers[w].pc = "read" /\ rx_workers'[w].pc = "handle") =>
                 rx_queue' = rx_queue]_vars
    /\ [][\/ rx_queue' = rx_queue
          \/ rx_queue # <<>> /\ rx_queue' = Tail(rx_queue)
          \/ /\ Len(rx_queue') = Len(rx_queue) + 1
             /\ SubSeq(rx_queue', 1, Len(rx_queue)) = rx_queue]_vars
    /\ [](app \in {"main", "cw_main"} =>
             \A i \in 1..Len(rx_queue) :
                 /\ rx_queue[i][1] % 10 = 0
                 /\ rx_queue[i][1] \div 10 \in 1..nblocks
                 /\ \A j \in 1..Len(rx_queue[i]) :
                       rx_queue[i][j] = rx_queue[i][1] + (j - 1))

C26_Witness ==
    /\ app = "main"
    /\ Len(rx_queue) = 1 /\ rx_queue[1] = <<10, 11, 12>>
    /\ rx_workers[1].pc = "handle" /\ rx_workers[1].status = 1
    /\ rx_workers[1].rx_buff = <<20, 11, 12>>

\* the k-th block the worker enqueued is on the queue / has left the queue
InQueue(k) == \E i \in 1..Len(rx_queue) : rx_queue[i][1] = k * 10
Dequeued(k) == k <= Pushed /\ ~InQueue(k)

\* C25: a tick on a non-empty queue takes the oldest block, removes exactly
\* that block and processes it; the queue always holds the most recently
\* enqueued blocks, each once, in the order they were enqueued; a block that
\* has left the queue never comes back; and with the timer ticking and the
\* worker running every enqueued block is eventually dequeued.
C25_FifoDelivery ==
    /\ [][(Tick /\ rx_queue # <<>>) =>
             /\ rx_queue' = Tail(rx_queue)
             /\ last_tick'.got = Len(Head(rx_queue))
             /\ spectrogram_data' =
                   SpectrogramProcess(Head(rx_queue), spectrogram_data,
                                      dc_state).data]_vars
    /\ [](\A i \in 1..Len(rx_queue) :
             rx_queue[i][1] = (Pushed - Len(rx_queue) + i) * 10)
    /\ [][\A k \in 1..MaxBlocks : Dequeued(k) => Dequeued(k)']_vars
    /\ \A k \in 1..MaxBlocks : InQueue(k) ~> Dequeued(k)

C25_Witness ==
    /\ app = "main"
    /\ Pushed = 2 /\ Dequeued(1) /\ Dequeued(2)
    /\ last_tick.got = 3 /\ last_tick.rows = 1
    /\ rx_queue = <<>> /\ displayed.seen = Buffer

\* threads that have been started and have not left their loop
AliveRx == {w \in 1..Len(rx_workers) : rx_workers[w].pc # "done"}
AliveTx == {w \in 1..Len(tx_workers) : tx_workers[w].pc # "done"}

\* C24 (as claimed): whatever the owner of the model calls, at most one RX
\* worker and at most one TX worker is alive at any time.
C24_SingleProducer ==
    Cardinality(AliveRx) <= 1 /\ Cardinality(AliveTx) <= 1

====
